---- MODULE Spec2Model ----
(***************************************************************************)
(* ape_line: the line editor (ape_line_editor.c), the history store        *)
(* (ape_line_history.c) and the read loop with its default handlers        *)
(* (ape_line_main.c), modelled as state machines.                          *)
(*                                                                         *)
(* Characters are their ASCII codes.  ssize_t values are kept inside the   *)
(* ILP32 range; an addition that leaves the range is undefined behaviour   *)
(* and yields every outcome a build can produce.                           *)
(***************************************************************************)
EXTENDS Integers, Sequences, FiniteSets, TLC

VARIABLES
    editor,      \* ape_line_editor: the standalone editor / _ape_line_state_g.s_editor
    fault,       \* the process has died on a wild memory access
    op,          \* the API call (or read-loop event) that produced this state
    phase,       \* what has been applied to the editor since its reset
    nIns,        \* inserts made in phase "ins"
    nBs,         \* backspaces made in phase "bs" (saturating)
    history,     \* _ape_line_history_
    ret,         \* what the last history call returned
    appended,    \* the texts appended since ape_line_history_init, in order
    prev_run,    \* previous() calls made in a row right after an append, or -1
    dirty_seq,   \* "dirty" after set_dirty(), "dirty_prev" after the previous() following it
    state,       \* _ape_line_state_g, but for s_editor
    seq,         \* static char seq[] of ape_line_def_char_handler (0 = cleared)
    seq_i,       \* static int seq_i of ape_line_def_char_handler
    term,        \* the attributes the terminal has: "saved" or "raw"
    last_error,  \* _ape_line_last_error
    status,      \* "idle", "reading" (ape_line_read blocked in read()), "exited", or "stopped_idle" / "stopped_reading" (stopped by SIGTSTP)
    out_line,    \* the caller's char *line: [ptr |-> "unset", "null" or "str", str |-> its text]
    read_ret,    \* what the last ape_line_read returned (-2 while one is running)
    call,        \* bookkeeping about the current ape_line_read call, see NewCall
    handlers,    \* signal dispositions: "none", "installed", or "tstp_reset" (SIGTSTP back to SIG_DFL)
    pc           \* where ape_line_editor_command stands in an insert, see NoInsert

edAux == <<phase, nIns, nBs>>
histAux == <<ret, appended, prev_run, dirty_seq>>
edVars == <<editor, fault, phase, nIns, nBs>>
histVars == <<history, ret, appended, prev_run, dirty_seq>>
sigVars == <<handlers, pc>>
readVars == <<state, seq, seq_i, term, last_error, status, out_line, read_ret,
              call, handlers, pc>>
vars == <<editor, fault, op, phase, nIns, nBs,
          history, ret, appended, prev_run, dirty_seq,
          state, seq, seq_i, term, last_error, status, out_line, read_ret,
          call, handlers, pc>>

----------------------------------------------------------------------------
(* Bounds of the model *)

MaxLen == 3          \* an insert is offered only while buf_len < MaxLen
MaxHist == 3         \* an append is offered only while count < MaxHist
MaxDepth == 2        \* ape_line_read is entered only while s_depth < MaxDepth
MaxEdit == 2         \* ape_line_read is fed a backspace only while buf_len <= MaxEdit

----------------------------------------------------------------------------
(* Program constants *)

SSIZE_MAX == 2147483647
SSIZE_MIN == -SSIZE_MAX - 1
NUL == 0
BS == 8              \* '\b'
TAB == 9             \* '\t'
NL == 10             \* '\n'
CR == 13             \* '\r'
ESC == 27            \* 0x1b
DEL == 127           \* 0x7f
INIT_CAP == 128      \* first capacity of the editor buffer
HIST_CAP == 128      \* first capacity of the history
NULLP == -1          \* a NULL pointer, where pointers are indexes into items
SOH == 1             \* a control byte no handler branch takes
LBRACKET == 91       \* '['
KEY_UP == 65         \* 'A'
KEY_DOWN == 66       \* 'B'
KEY_RIGHT == 67      \* 'C'
KEY_LEFT == 68       \* 'D'
SPACE == 32          \* 0x20, the first character the handler inserts
APE_LINE_TRUE == 1
APE_LINE_FALSE == 0
ExitCmd == <<101, 120, 105, 116>>             \* "exit"

----------------------------------------------------------------------------
(* Sequence helpers standing for the memmove / memcpy calls *)

Min(a, b) == IF a < b THEN a ELSE b

\* n copies of c
Rep(c, n) == [i \in 1..n |-> c]

\* memmove(buf + cursor - 1, buf + cursor, len - cursor): the cell left of
\* the (0-based) cursor is overwritten and the tail moves one cell left.
\* Only the first len - 1 cells stay part of the content.
ShiftLeft(items, cursor) ==
    SubSeq(items, 1, cursor - 1) \o SubSeq(items, cursor + 1, Len(items))

\* memmove(buf + cursor + 1, buf + cursor, len - cursor); buf[cursor] = c
ShiftRightPut(items, cursor, c) ==
    SubSeq(items, 1, cursor) \o <<c>> \o SubSeq(items, cursor + 1, Len(items))

----------------------------------------------------------------------------
(* ssize_t arithmetic *)

\* TRUE when a + b leaves [SSIZE_MIN, SSIZE_MAX] (signed overflow: undefined)
SsizeOverflows(a, b) ==
    \/ a > 0 /\ b > 0 /\ b > SSIZE_MAX - a
    \/ a < 0 /\ b < 0 /\ b < SSIZE_MIN - a

\* a + b as two's complement hardware computes it
SsizeWrapAdd(a, b) ==
    IF a > 0 /\ b > 0 /\ b > SSIZE_MAX - a
        THEN (a - SSIZE_MAX - 1) + (b - SSIZE_MAX - 1)
    ELSE IF a < 0 /\ b < 0 /\ b < SSIZE_MIN - a
        THEN (a + SSIZE_MAX + 1) + (b + SSIZE_MAX + 1)
    ELSE a + b

----------------------------------------------------------------------------
(* The editor: ape_line_editor_*                                           *)
(* buf_items holds the buf_len cells that are content; buf_cap is the size *)
(* of the allocation.  Every operator returns the set of outcomes          *)
(* [e |-> editor, fault |-> died], one per behaviour the build can show.   *)

\* A zero-initialised struct ape_line_editor (process_cmd_fn stays NULL)
ZeroEditor ==
    [inited |-> 0, cursor |-> 0, buf_cap |-> 0, buf_len |-> 0,
     buf_items |-> <<>>, last_char |-> NUL]

Ok(e) == [e |-> e, fault |-> FALSE]
Died(e) == [e |-> e, fault |-> TRUE]

\* What a read of buf_items[-1] (the byte before the allocation) can give.
\* last_char is only ever compared with '\n', so two values stand for all.
GarbageChars == {NUL, NL}

ape_line_editor_reset(e) ==
    [e EXCEPT !.buf_cap = 0, !.buf_len = 0, !.buf_items = <<>>,
              !.cursor = 0, !.inited = 1, !.last_char = NUL]

\* if (!e->inited) ape_line_editor_reset(e);
EnsureInited(e) == IF e.inited = 0 THEN ape_line_editor_reset(e) ELSE e

\* The cursor addresses a cell of the content (or its end)
CursorInContent(e) == 0 <= e.cursor /\ e.cursor <= e.buf_len

\* Backspace without the cursor > 0 test
EditorBackspace_NoGuard(e) ==
    LET cur == e.cursor - 1
        items == SubSeq(e.buf_items, 1, e.buf_len - 1)
    IN  {Ok([e EXCEPT !.buf_items = items, !.buf_len = e.buf_len - 1,
                      !.cursor = cur,
                      !.last_char = IF cur >= 1 /\ cur <= Len(items)
                                    THEN items[cur] ELSE NUL])}

\* Backspace that forgets buf_len--
EditorBackspace_KeepLen(e) ==
    IF e.cursor > 0
    THEN {Ok([e EXCEPT !.cursor = e.cursor - 1, !.last_char = NUL])}
    ELSE {Ok(e)}

\* Backspace without the memmove: the last character goes, not the one left
\* of the cursor
EditorBackspace_NoShift(e) ==
    IF e.cursor > 0
    THEN {Ok([e EXCEPT !.buf_items = SubSeq(e.buf_items, 1, e.buf_len - 1),
                       !.buf_len = e.buf_len - 1,
                       !.cursor = e.cursor - 1,
                       !.last_char = NUL])}
    ELSE {Ok(e)}

\* c == '\b'
EditorBackspace(e) ==
    IF e.cursor > 0
    THEN IF ~CursorInContent(e)
         THEN {Died(e)}
         ELSE LET items == IF e.cursor < e.buf_len
                           THEN ShiftLeft(e.buf_items, e.cursor)
                           ELSE SubSeq(e.buf_items, 1, e.buf_len - 1)
                  cur == e.cursor - 1
                  moved == [e EXCEPT !.buf_items = items,
                                     !.buf_len = e.buf_len - 1,
                                     !.cursor = cur]
              IN  IF cur - 1 >= 0
                  THEN {Ok([moved EXCEPT !.last_char = items[cur]])}
                  ELSE {Ok([moved EXCEPT !.last_char = g]) : g \in GarbageChars}
    ELSE {Ok(e)}

\* any character but '\b' and '\n': grow, shift right, store
EditorInsert(e, c) ==
    IF ~CursorInContent(e)
    THEN {Died(e)}
    ELSE LET cap == IF e.buf_len + 1 >= e.buf_cap
                    THEN (IF e.buf_cap # 0 THEN e.buf_cap * 2 ELSE INIT_CAP)
                    ELSE e.buf_cap
             put == [e EXCEPT !.buf_cap = cap,
                              !.buf_items = ShiftRightPut(e.buf_items, e.cursor, c),
                              !.cursor = e.cursor + 1,
                              !.buf_len = e.buf_len + 1,
                              !.last_char = c]
         IN  IF e.buf_len + 1 > cap
             THEN {Ok(put), Died(put)}     \* the store lands outside the allocation
             ELSE {Ok(put)}

ape_line_editor_command(e0, c) ==
    LET e == EnsureInited(e0)
    IN  IF c = BS THEN EditorBackspace(e)
        ELSE IF c = NL THEN {Ok([e EXCEPT !.last_char = c])}
        ELSE EditorInsert(e, c)

ape_line_editor_move(e0, offset) ==
    LET e == EnsureInited(e0)
        sum == SsizeWrapAdd(e.cursor, offset)
    IN  IF SsizeOverflows(e.cursor, offset)
        THEN \* undefined: the wrapped sum, or the comparison folded either way
             {Ok([e EXCEPT !.cursor = sum]),
              Ok([e EXCEPT !.cursor = IF offset < 0 THEN 0 ELSE e.buf_len])}
        ELSE IF offset < 0
             THEN IF sum > 0
                  THEN {Ok([e EXCEPT !.cursor = sum])}
                  ELSE {Ok([e EXCEPT !.cursor = 0])}
             ELSE IF sum <= e.buf_len
                  THEN {Ok([e EXCEPT !.cursor = sum])}
                  ELSE {Ok([e EXCEPT !.cursor = e.buf_len])}

ape_line_editor_goto(e0, pos) ==
    LET e == EnsureInited(e0)
    IN  IF pos < 0 THEN {Ok([e EXCEPT !.cursor = 0])}
        ELSE IF pos > e.buf_len THEN {Ok([e EXCEPT !.cursor = e.buf_len])}
        ELSE {Ok([e EXCEPT !.cursor = pos])}

ape_line_editor_last_char(e) == e.last_char

\* inited is not touched; the old allocation is dropped, not freed
ape_line_editor_set_str(e, s, len) ==
    LET cap == (len % 16) + 16
        set == [e EXCEPT !.buf_cap = cap,
                         !.buf_len = len,
                         !.buf_items = SubSeq(s, 1, len),
                         !.cursor = len,
                         !.last_char = IF len >= 1 THEN s[len] ELSE NUL]
    IN  IF len = 0
        THEN {Ok([set EXCEPT !.last_char = g]) : g \in GarbageChars}
        ELSE IF len > cap
             THEN {Ok(set), Died(set)}     \* memcpy runs past the allocation
             ELSE {Ok(set)}

----------------------------------------------------------------------------
(* The history store: ape_line_history_*                                   *)
(* items holds the count entries that were written; a pointer items + i is *)
(* the index i, and items + count is a cell nothing was written to.        *)
(* Every operator returns [h |-> history, ret |-> returned value].         *)

\* static ape_line_history _ape_line_history_ = { 0 }; nothing sets the hooks
ZeroHistory ==
    [inited |-> 0, capacity |-> 0, count |-> 0, items |-> <<>>,
     current_item |-> 0, histfile_fd |-> 0,
     histfile_parser |-> NULLP, histfile_writer |-> NULLP]

HRet(h, r) == [h |-> h, ret |-> r]

\* The outcomes of the parser hook on the file's bytes
ape_line_parse_histfile(h) ==
    IF h.inited # 0 THEN {-1}
    ELSE IF h.histfile_parser # NULLP THEN {-1, 0, 1}
    ELSE {0}

\* fd is what open() gave for the path (-1 on failure); path = NULLP is no path
ape_line_history_init(h, path, fd) ==
    IF h.inited # 0 THEN {HRet(h, -1)}
    ELSE LET opened == IF path # NULLP
                       THEN [h EXCEPT !.histfile_fd = fd]
                       ELSE [h EXCEPT !.histfile_fd = -1]
             ready == [opened EXCEPT !.current_item = -1,
                                     !.capacity = HIST_CAP,
                                     !.count = 0,
                                     !.items = <<>>,
                                     !.inited = 1]
         IN  IF path # NULLP
             THEN {IF e <= 0 THEN HRet(opened, e) ELSE HRet(ready, 0) :
                       e \in ape_line_parse_histfile(opened)}
             ELSE {HRet(ready, 0)}

\* The outcomes of the writer hook and the write() of what it produced
ape_line_save_histfile(h) ==
    IF h.inited = 0 THEN {-1}
    ELSE IF h.histfile_writer # NULLP THEN {-1, 1}
    ELSE {0}

\* free(items) leaves count as it was; the entries' strings are not freed
ape_line_history_shutdown(h) ==
    IF h.inited = 0 THEN {HRet(h, -1)}
    ELSE LET closed == HRet([h EXCEPT !.items = <<>>, !.inited = 0], 0)
         IN  IF h.histfile_fd # -1
             THEN {IF e < 0 THEN HRet(h, e) ELSE closed :
                       e \in ape_line_save_histfile(h)}
             ELSE {closed}

ape_line_history_get_last(h) ==
    IF h.inited = 0 THEN HRet(h, NULLP)
    ELSE IF h.count > 0
         THEN HRet([h EXCEPT !.current_item = h.count], h.count)
         ELSE HRet(h, NULLP)

\* append that drops the caller's tag
ape_line_history_append_NoTag(h, cmd, userdata) ==
    IF h.inited = 0 THEN HRet(h, -1)
    ELSE LET entry == [data_len |-> Len(cmd), data |-> cmd, userdata |-> NULLP]
             put == [h EXCEPT !.items = Append(h.items, entry),
                              !.count = h.count + 1,
                              !.current_item = h.count + 1]
         IN  HRet(put, put.count)

ape_line_history_append(h, cmd, userdata) ==
    IF h.inited = 0 THEN HRet(h, -1)
    ELSE LET cap == IF h.count + 1 >= h.capacity THEN h.capacity * 2 ELSE h.capacity
             entry == [data_len |-> Len(cmd), data |-> cmd, userdata |-> userdata]
             put == [h EXCEPT !.capacity = cap,
                              !.items = Append(h.items, entry),
                              !.count = h.count + 1]
             last == ape_line_history_get_last(put).h
         IN  HRet([last EXCEPT !.current_item = last.count], last.count)

ape_line_history_get_index(h, i) ==
    IF h.inited = 0 THEN HRet(h, NULLP)
    ELSE IF i < h.count THEN HRet(h, i)
    ELSE HRet(h, NULLP)

ape_line_history_next(h) ==
    IF h.inited = 0 THEN HRet(h, NULLP)
    ELSE IF h.current_item < 0 THEN HRet(h, NULLP)
    ELSE IF h.current_item + 1 < h.count
         THEN HRet([h EXCEPT !.current_item = h.current_item + 1], h.current_item + 1)
    ELSE IF h.current_item + 1 = h.count THEN HRet(h, NULLP)
    ELSE HRet(h, h.current_item)

\* previous() with the two commented-out lines at work: it restarts from the
\* newest entry when the store is not browsing
ape_line_history_previous_Restart(h) ==
    IF h.inited = 0 THEN HRet(h, NULLP)
    ELSE IF h.current_item < 0
    THEN IF h.count > 0
         THEN HRet([h EXCEPT !.current_item = h.count - 1], h.count - 1)
         ELSE HRet(h, NULLP)
    ELSE IF h.current_item > 0
         THEN HRet([h EXCEPT !.current_item = h.current_item - 1], h.current_item - 1)
    ELSE HRet(h, h.current_item)

\* previous() that steps back from the oldest entry too
ape_line_history_previous_NoClamp(h) ==
    IF h.inited = 0 THEN HRet(h, NULLP)
    ELSE IF h.current_item < 0 THEN HRet(h, NULLP)
    ELSE HRet([h EXCEPT !.current_item = h.current_item - 1], h.current_item - 1)

\* previous() that forgets to step back
ape_line_history_previous_NoStep(h) ==
    IF h.inited = 0 THEN HRet(h, NULLP)
    ELSE IF h.current_item < 0 THEN HRet(h, NULLP)
    ELSE HRet(h, h.current_item)

ape_line_history_previous(h) ==
    IF h.inited = 0 THEN HRet(h, NULLP)
    ELSE IF h.current_item < 0 THEN HRet(h, NULLP)
    ELSE IF h.current_item > 0
         THEN HRet([h EXCEPT !.current_item = h.current_item - 1], h.current_item - 1)
    ELSE HRet(h, h.current_item)

\* set_dirty that leaves the browse cursor where it is
ape_line_history_set_dirty_Noop(h) == HRet(h, 0)

ape_line_history_set_dirty(h) ==
    IF h.inited = 0 THEN HRet(h, -1)
    ELSE HRet([h EXCEPT !.current_item = -1], 0)

\* The pointer p addresses an entry that was written
PointsAtEntry(h, p) == p # NULLP /\ 0 <= p /\ p < h.count

----------------------------------------------------------------------------
(* The read loop and its default handlers: ape_line_main.c, ape_line_error.c *)

APE_LINE_ERROR_NONE == "NONE"
APE_LINE_ERROR_WRITE == "WRITE"
APE_LINE_ERROR_NOT_TTY == "NOT_TTY"
APE_LINE_ERROR_NOT_INITIALIZED == "NOT_INITIALIZED"
APE_LINE_ERROR_NO_OUTLINE == "NO_OUTLINE"
APE_LINE_ERROR_NO_PROMPT == "NO_PROMPT"
APE_LINE_ERROR_INTERRUPT == "INTERRUPT"
APE_LINE_ERROR_READ == "READ"

\* The caller's line pointer: never assigned, NULL, or a malloc'ed copy
LineUnset == [ptr |-> "unset", str |-> <<>>]
LineNull == [ptr |-> "null", str |-> <<>>]
LineCopy(items) == [ptr |-> "str", str |-> items]

\* Bookkeeping about an ape_line_read call:
\*   kind         "pure" while every byte fed to it was printable, "line" when
\*                such a run was followed by one CR or LF, else "mixed"
\*   bytes        the printable bytes of that run
\*   esc_entry    s_esc_seq as it was when the call was entered
\*   done_cursor  the cursor at the moment the line was complete, else -1
NoCall == [kind |-> "mixed", bytes |-> <<>>, esc_entry |-> 0, done_cursor |-> -1]
NewCall(esc) == [kind |-> "pure", bytes |-> <<>>, esc_entry |-> esc, done_cursor |-> -1]

\* ape_line_editor_command is not inside an insert: at is "none". Inside one,
\* at names the statement it executes next ("grow", "shift", "store", "len",
\* "last") and c is the character being inserted
NoInsert == [at |-> "none", c |-> NUL]

\* static ape_line_state _ape_line_state_g = { 0 }. s_depth is an unsigned:
\* its values are written in two's complement, -1 standing for UINT_MAX, the
\* value 0 - 1 wraps to
ZeroState ==
    [s_initialized |-> 0, s_is_tty |-> 0, s_depth |-> 0,
     s_esc_seq |-> 0, s_is_done |-> 0, s_prompt |-> NULLP, s_opts |-> 0]

\* The value _ape_line_last_error has after ape_line_set_error(err)
ape_line_set_error(err) == APE_LINE_ERROR_NONE

\* The attributes in effect after the tcsetattr of apply_raw / restore
ape_line_apply_raw(st, t) == IF st.s_is_tty = 0 THEN t ELSE "raw"
ape_line_restore(st, t) == IF st.s_is_tty = 0 THEN t ELSE "saved"

\* The dispositions after the three sigaction calls
ape_line_install_handlers == "installed"

\* ape_line_init without the test of s_initialized
ape_line_init_NoGuard(st, opts, tty, tcget) ==
    IF opts = NULLP
    THEN [state |-> st, fault |-> TRUE, ret |-> 0, installs |-> FALSE]
    ELSE IF tty # 0 /\ tcget < 0
    THEN [state |-> [st EXCEPT !.s_opts = opts, !.s_is_tty = tty],
          fault |-> FALSE, ret |-> -1, installs |-> FALSE]
    ELSE [state |-> [st EXCEPT !.s_opts = opts, !.s_is_tty = tty,
                               !.s_initialized = APE_LINE_TRUE],
          fault |-> FALSE, ret |-> 0, installs |-> tty # 0]

\* ape_line_shutdown that leaves the terminal as it is
ape_line_shutdown_NoRestore(st, t, h) ==
    IF st.s_initialized = 0
    THEN {[state |-> st, term |-> t, h |-> h]}
    ELSE {[state |-> [st EXCEPT !.s_depth = 0, !.s_initialized = 0],
           term |-> t, h |-> o.h] : o \in ape_line_history_shutdown(h)}

\* ape_line_shutdown that keeps s_depth
ape_line_shutdown_KeepDepth(st, t, h) ==
    IF st.s_initialized = 0
    THEN {[state |-> st, term |-> t, h |-> h]}
    ELSE {[state |-> [st EXCEPT !.s_initialized = 0],
           term |-> ape_line_restore(st, t), h |-> o.h] :
              o \in ape_line_history_shutdown(h)}

\* ape_line_shutdown(): the state, the terminal and the history it leaves
ape_line_shutdown(st, t, h) ==
    IF st.s_initialized = 0
    THEN {[state |-> st, term |-> t, h |-> h]}
    ELSE {[state |-> [st EXCEPT !.s_depth = 0, !.s_initialized = 0],
           term |-> ape_line_restore(st, t), h |-> o.h] :
              o \in ape_line_history_shutdown(h)}

\* ape_line_init(opts); tty is what isatty() says of both descriptors and
\* tcget what tcgetattr() returns. [state, fault |-> it died, ret |-> returned,
\* installs |-> ape_line_install_handlers() was called]
ape_line_init(st, opts, tty, tcget) ==
    IF st.s_initialized # 0
    THEN [state |-> st, fault |-> FALSE, ret |-> 0, installs |-> FALSE]
    ELSE IF opts = NULLP
    THEN [state |-> st, fault |-> TRUE, ret |-> 0, installs |-> FALSE]   \* opts->is_done_func with opts NULL
    ELSE IF tty # 0 /\ tcget < 0
    THEN [state |-> [st EXCEPT !.s_opts = opts, !.s_is_tty = tty],
          fault |-> FALSE, ret |-> -1, installs |-> FALSE]
    ELSE [state |-> [st EXCEPT !.s_opts = opts, !.s_is_tty = tty,
                               !.s_initialized = APE_LINE_TRUE],
          fault |-> FALSE, ret |-> 0, installs |-> tty # 0]

\* What reading the cell items + p as an entry can give when nothing was
\* written there: memory that happens to be zero (the other outcome is a
\* wild pointer, and the process dies)
GarbageEntries == {[data_len |-> 0, data |-> <<>>, userdata |-> NULLP]}

\* if (ent) ape_line_editor_set_str(&s_editor, ent->data, ent->data_len);
RecallEntry(e, h, p) ==
    IF p = NULLP THEN {Ok(e)}
    ELSE IF PointsAtEntry(h, p)
         THEN ape_line_editor_set_str(e, h.items[p + 1].data, h.items[p + 1].data_len)
         ELSE {Died(e)} \cup
              UNION {ape_line_editor_set_str(e, g.data, g.data_len) : g \in GarbageEntries}

HOut(st, sq, si, o, h, handled, ev) ==
    [state |-> st, seq |-> sq, seq_i |-> si, e |-> o.e, fault |-> o.fault,
     h |-> h, handled |-> handled, ev |-> ev]

\* EscDispatch with the up and down arrows exchanged
EscDispatch_Swapped(st, sq, si, e, h) ==
    LET normal == [st EXCEPT !.s_esc_seq = 0]
        dead == <<0, 0, 0>>      \* the cells are not read again before ESC clears them
    IN  IF sq[1] = LBRACKET /\ sq[2] = KEY_DOWN
        THEN LET r == ape_line_history_previous(h)
             IN  {HOut(normal, dead, si, o, r.h, APE_LINE_TRUE, "hist_prev") :
                      o \in RecallEntry(e, r.h, r.ret)}
        ELSE IF sq[1] = LBRACKET /\ sq[2] = KEY_UP
        THEN LET r == ape_line_history_next(h)
             IN  {HOut(normal, dead, si, o, r.h, APE_LINE_TRUE, "hist_next") :
                      o \in RecallEntry(e, r.h, r.ret)}
        ELSE IF sq[1] = LBRACKET /\ sq[2] = KEY_RIGHT
        THEN {HOut(normal, dead, si, o, h, APE_LINE_TRUE, "right") :
                  o \in ape_line_editor_move(e, 1)}
        ELSE IF sq[1] = LBRACKET /\ sq[2] = KEY_LEFT
        THEN {HOut(normal, dead, si, o, h, APE_LINE_TRUE, "left") :
                  o \in ape_line_editor_move(e, -1)}
        ELSE {HOut(normal, dead, si, Ok(e), h, APE_LINE_TRUE, "esc_drop")}

\* The second byte after ESC: dispatch on seq[0], seq[1]
EscDispatch(st, sq, si, e, h) ==
    LET normal == [st EXCEPT !.s_esc_seq = 0]
        dead == <<0, 0, 0>>      \* the cells are not read again before ESC clears them
    IN  IF sq[1] = LBRACKET /\ sq[2] = KEY_UP
        THEN LET r == ape_line_history_previous(h)
             IN  {HOut(normal, dead, si, o, r.h, APE_LINE_TRUE, "hist_prev") :
                      o \in RecallEntry(e, r.h, r.ret)}
        ELSE IF sq[1] = LBRACKET /\ sq[2] = KEY_DOWN
        THEN LET r == ape_line_history_next(h)
             IN  {HOut(normal, dead, si, o, r.h, APE_LINE_TRUE, "hist_next") :
                      o \in RecallEntry(e, r.h, r.ret)}
        ELSE IF sq[1] = LBRACKET /\ sq[2] = KEY_RIGHT
        THEN {HOut(normal, dead, si, o, h, APE_LINE_TRUE, "right") :
                  o \in ape_line_editor_move(e, 1)}
        ELSE IF sq[1] = LBRACKET /\ sq[2] = KEY_LEFT
        THEN {HOut(normal, dead, si, o, h, APE_LINE_TRUE, "left") :
                  o \in ape_line_editor_move(e, -1)}
        ELSE {HOut(normal, dead, si, Ok(e), h, APE_LINE_TRUE, "esc_drop")}

ape_line_def_char_handler(st, sq, si, e, h, c) ==
    IF st.s_esc_seq # 0
    THEN LET sq1 == [sq EXCEPT ![si + 1] = c]
             si1 == si + 1
         IN  IF si1 = 2
             THEN EscDispatch(st, sq1, si1, e, h)
             ELSE {HOut(st, sq1, si1, Ok(e), h, APE_LINE_TRUE, "esc_byte")}
    ELSE IF c = CR \/ c = NL
    THEN {HOut([st EXCEPT !.s_is_done = APE_LINE_TRUE], sq, si, o, h,
               APE_LINE_TRUE, "newline") :
              o \in ape_line_editor_command(e, NL)}
    ELSE IF c = ESC
    THEN {HOut([st EXCEPT !.s_esc_seq = 1], <<0, 0, 0>>, 0, Ok(e), h,
               APE_LINE_TRUE, "esc")}
    ELSE LET hd == ape_line_history_set_dirty(h).h
         IN  IF c = DEL \/ c = BS
             THEN {HOut(st, sq, si, o, hd, APE_LINE_TRUE, "backspace") :
                       o \in ape_line_editor_command(e, BS)}
             ELSE IF c >= SPACE \/ c = TAB
             THEN {HOut(st, sq, si, o, hd, APE_LINE_TRUE, "insert") :
                       o \in ape_line_editor_command(e, c)}
             ELSE {HOut(st, sq, si, Ok(e), hd, APE_LINE_FALSE, "ignored")}

\* is_done that never reports a complete line
ape_line_def_is_done_Never(st, e) == [done |-> APE_LINE_FALSE, state |-> st]

\* [done |-> result, state |-> with the latch cleared when result is true]
ape_line_def_is_done(st, e) ==
    LET result == IF st.s_is_done = APE_LINE_TRUE \/ ape_line_editor_last_char(e) = NL
                  THEN APE_LINE_TRUE ELSE APE_LINE_FALSE
    IN  [done |-> result,
         state |-> IF result = APE_LINE_TRUE
                   THEN [st EXCEPT !.s_is_done = APE_LINE_FALSE] ELSE st]

\* exec_cmd that appends the empty line too
ape_line_def_exec_cmd_AppendsEmpty(h, cmd) ==
    [h |-> ape_line_history_append(h, cmd, NULLP).h,
     exits |-> cmd = ExitCmd]

\* exec_cmd that leaves on every non-empty line
ape_line_def_exec_cmd_ExitsOnAny(h, cmd) ==
    [h |-> IF Len(cmd) > 0 THEN ape_line_history_append(h, cmd, NULLP).h ELSE h,
     exits |-> Len(cmd) > 0]

\* [h |-> history, exits |-> exit(0) was called]
ape_line_def_exec_cmd(h, cmd) ==
    [h |-> IF Len(cmd) > 0 THEN ape_line_history_append(h, cmd, NULLP).h ELSE h,
     exits |-> cmd = ExitCmd]

\* The trimming of a stored trailing newline once the line is complete
TrimNewline(e) ==
    IF e.buf_len > 0 /\ e.buf_items[e.buf_len] = NL
    THEN UNION {ape_line_editor_command(g.e, BS) :
                    g \in ape_line_editor_goto(e, e.buf_len)}
    ELSE {Ok(e)}

----------------------------------------------------------------------------
(* Bookkeeping about the calls made since the last reset:                  *)
(*   "ins"  only inserts                                                   *)
(*   "bs"   inserts, then only backspaces                                  *)
(*   "cmds" any mix of inserts and backspaces                              *)
(*   "any"  something else was called                                      *)

AfterReset == <<"ins", 0, 0>>

AfterCommand(e0, c) ==
    IF e0.inited = 0
    THEN IF c = BS THEN <<"bs", 0, 1>>
         ELSE IF c = NL THEN <<"any", 0, 0>>
         ELSE <<"ins", 1, 0>>
    ELSE IF phase = "any" \/ c = NL THEN <<"any", 0, 0>>
    ELSE IF c = BS
         THEN IF phase \in {"ins", "bs"}
              THEN <<"bs", nIns, Min(nBs + 1, MaxLen + 1)>>
              ELSE <<"cmds", 0, 0>>
         ELSE IF phase = "ins" THEN <<"ins", nIns + 1, 0>>
              ELSE <<"cmds", 0, 0>>

----------------------------------------------------------------------------
(* SpecEditor: the editor driven through its API *)

Track(t) == phase' = t[1] /\ nIns' = t[2] /\ nBs' = t[3]

EditorChars == {97, 98}                       \* 'a', 'b'
EditorCmdChars == EditorChars \cup {BS, NL}
Offsets == {SSIZE_MIN, -2, -1, 0, 1, 2, SSIZE_MAX}
SetStrInputs == {<<97>>, <<98, 97>>, Rep(97, 17), Rep(98, 32)}

Init ==
    /\ editor = ZeroEditor
    /\ fault = FALSE
    /\ op = "init"
    /\ phase = "any"
    /\ nIns = 0
    /\ nBs = 0
    /\ history = ZeroHistory
    /\ ret = 0
    /\ appended = <<>>
    /\ prev_run = -1
    /\ dirty_seq = "none"
    /\ state = ZeroState
    /\ seq = <<0, 0, 0>>
    /\ seq_i = 0
    /\ term = "saved"
    /\ last_error = APE_LINE_ERROR_NONE
    /\ status = "idle"
    /\ out_line = LineUnset
    /\ read_ret = 0
    /\ call = NoCall
    /\ handlers = "none"
    /\ pc = NoInsert

Reset ==
    /\ ~fault
    /\ editor' = ape_line_editor_reset(editor)
    /\ op' = "reset"
    /\ Track(AfterReset)
    /\ UNCHANGED <<fault, histVars, readVars>>

CommandOf(c) ==
    /\ ~fault
    /\ c \in EditorChars => editor.buf_len < MaxLen
    /\ \E o \in ape_line_editor_command(editor, c) :
          /\ editor' = o.e
          /\ fault' = o.fault
    /\ Track(AfterCommand(editor, c))
    /\ op' = IF c = BS THEN "backspace" ELSE IF c = NL THEN "newline" ELSE "insert"
    /\ UNCHANGED <<histVars, readVars>>

Command == \E c \in EditorCmdChars : CommandOf(c)

\* A cursor that has left the content is not moved further: each such move
\* would only add one more wild cursor value to explore.
Move ==
    /\ ~fault
    /\ CursorInContent(editor)
    /\ \E offset \in Offsets :
          \E o \in ape_line_editor_move(editor, offset) :
                /\ editor' = o.e
                /\ fault' = o.fault
    /\ op' = "move"
    /\ Track(<<"any", 0, 0>>)
    /\ UNCHANGED <<histVars, readVars>>

Goto ==
    /\ ~fault
    /\ \E pos \in Offsets :
          \E o \in ape_line_editor_goto(editor, pos) :
                /\ editor' = o.e
                /\ fault' = o.fault
    /\ op' = "goto"
    /\ Track(<<"any", 0, 0>>)
    /\ UNCHANGED <<histVars, readVars>>

SetStr ==
    /\ ~fault
    /\ \E s \in SetStrInputs :
          \E o \in ape_line_editor_set_str(editor, s, Len(s)) :
                /\ editor' = o.e
                /\ fault' = o.fault
    /\ op' = "set_str"
    /\ Track(<<"any", 0, 0>>)
    /\ UNCHANGED <<histVars, readVars>>

NextEditor == Reset \/ Command \/ Move \/ Goto \/ SetStr

SpecEditor == Init /\ [][NextEditor]_vars

----------------------------------------------------------------------------
(* Claims about the editor, checked under SpecEditor *)

\* C1: from a reset editor, after every ape_line_editor_command call with a
\* printable character or '\b', 0 <= cursor <= buf_len.
C1_CursorWithinLength ==
    phase \in {"ins", "bs", "cmds"} =>
        /\ ~fault
        /\ 0 <= editor.cursor
        /\ editor.cursor <= editor.buf_len

\* a backspace was issued on a buffer that earlier backspaces had emptied
C1_Witness ==
    /\ phase = "bs"
    /\ op = "backspace"
    /\ nIns >= 1
    /\ nBs > nIns

\* C2: after any sequence of reset, command, move, goto and set_str calls,
\* 0 <= cursor <= buf_len <= buf_cap.
C2_CursorLenCap ==
    /\ 0 <= editor.cursor
    /\ editor.cursor <= editor.buf_len
    /\ editor.buf_len <= editor.buf_cap

\* C3: N inserts from a reset editor followed by N backspaces leave
\* buf_len = 0 and cursor = 0.
C3_InsertBackspaceRoundTrip ==
    (phase = "bs" /\ nBs = nIns) =>
        /\ editor.buf_len = 0
        /\ editor.cursor = 0
        /\ editor.buf_items = <<>>

\* MaxLen inserts were undone by as many backspaces
C3_Witness ==
    /\ phase = "bs"
    /\ op = "backspace"
    /\ nIns = MaxLen
    /\ nBs = nIns

\* C4: ape_line_editor_move and ape_line_editor_goto leave the cursor in
\* [0, buf_len] and the content and length as they were, whatever the
\* offset or position.
C4_MoveGotoClamp ==
    [][op' \in {"move", "goto"} =>
          /\ 0 <= editor'.cursor
          /\ editor'.cursor <= editor'.buf_len
          /\ editor'.buf_len = editor.buf_len
          /\ editor'.buf_items = editor.buf_items]_vars

----------------------------------------------------------------------------
(* SpecHistory: the history store driven through its API *)

HistTexts == {<<97>>, <<98>>}                 \* "a", "b"
HistTags == {NULLP, 1}                        \* the opaque userdata
HistPaths == {NULLP, 1}                       \* no path, or some path
OpenFds == {-1, 3}                            \* open() failed, or a descriptor

\* Bookkeeping after a call that is neither append, previous nor set_dirty
HistOther(o) ==
    /\ history' = o.h
    /\ ret' = o.ret
    /\ prev_run' = -1
    /\ dirty_seq' = "none"

HInit ==
    /\ status = "idle"
    /\ ~fault
    /\ \E path \in HistPaths, fd \in OpenFds :
          \E o \in ape_line_history_init(history, path, fd) :
             /\ HistOther(o)
             /\ appended' = IF o.h.inited # history.inited THEN <<>> ELSE appended
    /\ op' = "history_init"
    /\ UNCHANGED <<edVars, readVars>>

HShutdown ==
    /\ \E o \in ape_line_history_shutdown(history) : HistOther(o)
    /\ op' = "history_shutdown"
    /\ UNCHANGED <<appended, edVars, readVars>>

\* ape_line_history_append(cmd, userdata)
HAppendOf(cmd, userdata) ==
    /\ history.count < MaxHist
    /\ LET o == ape_line_history_append(history, cmd, userdata)
       IN  /\ history' = o.h
           /\ ret' = o.ret
           /\ appended' = IF history.inited # 0 THEN Append(appended, cmd) ELSE appended
           /\ prev_run' = IF history.inited # 0 THEN 0 ELSE -1
    /\ dirty_seq' = "none"
    /\ op' = "history_append"
    /\ UNCHANGED <<edVars, readVars>>

HAppend == \E cmd \in HistTexts, userdata \in HistTags : HAppendOf(cmd, userdata)

HGetIndex ==
    /\ \E i \in 0..MaxHist : HistOther(ape_line_history_get_index(history, i))
    /\ op' = "history_get_index"
    /\ UNCHANGED <<appended, edVars, readVars>>

HNext ==
    /\ HistOther(ape_line_history_next(history))
    /\ op' = "history_next"
    /\ UNCHANGED <<appended, edVars, readVars>>

HPrevious ==
    /\ LET o == ape_line_history_previous(history)
       IN  /\ history' = o.h
           /\ ret' = o.ret
    /\ prev_run' = IF prev_run >= 0 THEN Min(prev_run + 1, MaxHist + 2) ELSE -1
    /\ dirty_seq' = IF dirty_seq = "dirty" THEN "dirty_prev" ELSE "none"
    /\ op' = "history_previous"
    /\ UNCHANGED <<appended, edVars, readVars>>

HGetLast ==
    /\ HistOther(ape_line_history_get_last(history))
    /\ op' = "history_get_last"
    /\ UNCHANGED <<appended, edVars, readVars>>

HSetDirty ==
    /\ LET o == ape_line_history_set_dirty(history)
       IN  /\ history' = o.h
           /\ ret' = o.ret
    /\ prev_run' = -1
    /\ dirty_seq' = IF history.inited # 0 THEN "dirty" ELSE "none"
    /\ op' = "history_set_dirty"
    /\ UNCHANGED <<appended, edVars, readVars>>

NextHistory ==
    \/ HInit \/ HShutdown \/ HAppend \/ HGetIndex
    \/ HNext \/ HPrevious \/ HGetLast \/ HSetDirty

SpecHistory == Init /\ [][NextHistory]_vars

----------------------------------------------------------------------------
(* Claims about the history store, checked under SpecHistory *)

\* C9: after appends E1..Ek, k calls of ape_line_history_previous with no
\* other call between return Ek, ..., E1 in that order, and further calls
\* return E1 again.
C9_PreviousWalksBack ==
    prev_run >= 1 =>
        LET i == IF prev_run <= history.count THEN history.count - prev_run ELSE 0
        IN  /\ ret = i
            /\ PointsAtEntry(history, ret)
            /\ history.items[ret + 1].data = appended[i + 1]
            /\ history.items[ret + 1].data_len = Len(appended[i + 1])

\* previous() was called once more than there are entries
C9_Witness ==
    /\ op = "history_previous"
    /\ history.count = MaxHist
    /\ prev_run = MaxHist + 1
    /\ appended[1] # appended[2]

\* C10: on a non-empty history, set_dirty() followed by previous() returns
\* the most recently appended entry.
C10_DirtyThenPreviousIsNewest ==
    (dirty_seq = "dirty_prev" /\ history.inited # 0 /\ history.count > 0) =>
        /\ ret = history.count - 1
        /\ history.items[ret + 1].data = appended[Len(appended)]

\* C11: on an initialized store that is not browsing (current_item = -1, as
\* after init or set_dirty), ape_line_history_previous returns no entry and
\* leaves current_item at -1.
C11_PreviousWhenNotBrowsing ==
    [][(history.inited # 0 /\ history.current_item = -1 /\ HPrevious)
          => (ret' = NULLP /\ history'.current_item = -1 /\ history' = history)]_vars

\* previous() right after set_dirty() on a full store
C11_Witness ==
    /\ op = "history_previous"
    /\ dirty_seq = "dirty_prev"
    /\ history.inited # 0
    /\ history.count = MaxHist
    /\ history.current_item = -1
    /\ ret = NULLP

\* C12 as stated: on an initialized store current_item is -1 or an index i
\* with 0 <= i < count.
C12_BrowseCursorInRange ==
    history.inited # 0 =>
        \/ history.current_item = -1
        \/ 0 <= history.current_item /\ history.current_item < history.count

\* The oldest and the newest position of a non-empty initialized store
AtOldest == history.inited # 0 /\ history.count > 0 /\ history.current_item = 0
AtNewest ==
    history.inited # 0 /\ history.count > 0 /\ history.current_item = history.count - 1

\* C13 as stated: previous() at the oldest entry and next() at the newest keep
\* the cursor and return the entry at that position, and the two return no
\* entry only when the store is empty or uninitialized.
C13_ClampAtBoundary ==
    [][/\ (AtOldest /\ HPrevious) => (ret' = 0 /\ history' = history)
       /\ (AtNewest /\ HNext) => (ret' = history.count - 1 /\ history' = history)
       /\ ((HPrevious \/ HNext) /\ ret' = NULLP) =>
             (history.inited = 0 \/ history.count = 0)]_vars

\* C13 where it holds: previous() at the oldest entry keeps the cursor and
\* returns that entry; next() at the newest entry keeps the cursor and returns
\* no entry.
C13_ClampAtBoundary_Amended ==
    [][/\ (AtOldest /\ HPrevious) => (ret' = 0 /\ history' = history)
       /\ (AtNewest /\ HNext) => (ret' = NULLP /\ history' = history)]_vars

\* next() on the newest of MaxHist entries
C13_Witness ==
    /\ op = "history_next"
    /\ history.inited # 0
    /\ history.count = MaxHist
    /\ history.current_item = history.count - 1
    /\ ret = NULLP

\* C14 as stated: on a non-empty initialized store get_last() returns the
\* entry at index count - 1 and leaves current_item on that entry.
C14_GetLastIsNewest ==
    (op = "history_get_last" /\ history.inited # 0 /\ history.count > 0) =>
        /\ ret = history.count - 1
        /\ PointsAtEntry(history, ret)
        /\ history.current_item = history.count - 1

\* C15: on an initialized store append(text, tag) raises count by one, stores
\* text with its length and the tag at the new last index, leaves the earlier
\* entries as they were and sets current_item to the new count; on an
\* uninitialized store it returns -1 and changes nothing.
C15_AppendFrame ==
    [][\A cmd \in HistTexts, userdata \in HistTags :
          HAppendOf(cmd, userdata) =>
             IF history.inited # 0
             THEN /\ history'.count = history.count + 1
                  /\ Len(history'.items) = history'.count
                  /\ history'.items[history'.count] =
                        [data |-> cmd, data_len |-> Len(cmd), userdata |-> userdata]
                  /\ SubSeq(history'.items, 1, history.count) = history.items
                  /\ history'.current_item = history'.count
                  /\ history'.inited = history.inited
             ELSE /\ ret' = -1
                  /\ history' = history]_vars

\* The second of two different entries, appended with a tag
C15_Witness ==
    /\ op = "history_append"
    /\ history.inited # 0
    /\ history.count = 2
    /\ history.items[1].data # history.items[2].data
    /\ history.items[2].userdata = 1
    /\ history.current_item = 2

\* C16 as stated: ape_line_history_init(path) with a path that returned 0 has
\* initialized the store (histfile_fd is -1 only when no path was given or
\* open() failed).
C16_InitWithPathInitializes ==
    (op = "history_init" /\ ret = 0 /\ history.histfile_fd # -1) =>
        history.inited # 0

----------------------------------------------------------------------------
(* Spec: an application that initialises the history and the library and   *)
(* calls ape_line_read with the default handlers; the terminal feeds bytes *)

\* What the keyboard sends while the recognizer is in Normal state, and as
\* the first and the second byte after ESC
NormalBytes == {ESC, CR, NL, DEL, BS, SOH, TAB, 101, 120, 105, 116}
EscFirstBytes == {LBRACKET, NL}
EscSecondBytes == {KEY_UP, KEY_DOWN, KEY_RIGHT, KEY_LEFT, LBRACKET, NL}

\* The lines the user is typing towards: a character is typed only where it
\* leaves the buffer a prefix of one of them
TypedWords == {ExitCmd, <<TAB>>}

IsPrefix(s, w) == Len(s) <= Len(w) /\ s = SubSeq(w, 1, Len(s))

Printable(b) == SPACE <= b /\ b < DEL

Offered(b) ==
    IF state.s_esc_seq # 0
    THEN IF seq_i = 0 THEN b \in EscFirstBytes ELSE b \in EscSecondBytes
    ELSE /\ b \in NormalBytes
         /\ (b = DEL \/ b = BS) => editor.buf_len <= MaxEdit
         /\ (Printable(b) \/ b = TAB) =>
               /\ CursorInContent(editor)
               /\ \E w \in TypedWords :
                     IsPrefix(ShiftRightPut(editor.buf_items, editor.cursor, b), w)

Prompts == {NULLP, 1}        \* a NULL prompt, or some prompt
OutSlots == {NULLP, 1}       \* a NULL out_line, or the address of the caller's line
OptsArgs == {NULLP, 1}       \* a NULL opts, or the options of test.c: no hook, install_handlers set

\* The application's ape_line_history_init(NULL), as in test.c
AppHistoryInit ==
    /\ status = "idle"
    /\ ~fault
    /\ \E o \in ape_line_history_init(history, NULLP, -1) : history' = o.h
    /\ op' = "history_init"
    /\ call' = NoCall
    /\ UNCHANGED <<edVars, histAux, sigVars, state, seq, seq_i, term, last_error, status,
                   out_line, read_ret>>

\* ape_line_init(opts); tty is what isatty() says of both descriptors and
\* tcget what tcgetattr() returns
ApeLineInitOf(opts, tty, tcget) ==
    /\ status = "idle"
    /\ ~fault
    /\ LET r == ape_line_init(state, opts, tty, tcget)
       IN  /\ state' = r.state
           /\ fault' = r.fault
           /\ op' = IF r.ret = 0 THEN "init" ELSE "init_failed"
           /\ handlers' = IF r.installs THEN ape_line_install_handlers ELSE handlers
    /\ call' = NoCall
    /\ UNCHANGED <<editor, edAux, histVars, pc, seq, seq_i, term, last_error, status,
                   out_line, read_ret>>

ApeLineInit ==
    \E opts \in OptsArgs, tty \in {0, 1}, tcget \in {-1, 0} :
        ApeLineInitOf(opts, tty, tcget)

\* ape_line_shutdown() called between two reads
ApeLineShutdown ==
    /\ status = "idle"
    /\ ~fault
    /\ \E r \in ape_line_shutdown(state, term, history) :
          /\ state' = r.state
          /\ term' = r.term
          /\ history' = r.h
    /\ op' = "shutdown"
    /\ call' = NoCall
    /\ UNCHANGED <<edVars, histAux, sigVars, seq, seq_i, last_error, status, out_line,
                   read_ret>>

\* The caller's line left as it was found
OutLineAtEntry_Kept(old) == old

\* *out_line = NULL, once the four checks have passed
OutLineAtEntry(old) == LineNull

\* ReadRefused with *out_line = NULL done before the checks
ReadRefused_ClearsOut(err) ==
    /\ last_error' = ape_line_set_error(err)
    /\ read_ret' = -1
    /\ op' = "read_refused"
    /\ call' = NoCall
    /\ out_line' = LineNull
    /\ UNCHANGED <<edVars, histVars, sigVars, state, seq, seq_i, term, status>>

\* A call that fails one of the four checks at the top of ape_line_read
ReadRefused(err) ==
    /\ last_error' = ape_line_set_error(err)
    /\ read_ret' = -1
    /\ op' = "read_refused"
    /\ call' = NoCall
    /\ UNCHANGED <<edVars, histVars, sigVars, state, seq, seq_i, term, status, out_line>>

\* ape_line_read(prompt, out) up to its first blocking read(); wr is what
\* the write() of the prompt returns
ReadCall(prompt, out, wr) ==
    /\ status = "idle"
    /\ ~fault
    /\ state.s_depth < MaxDepth
    /\    IF state.s_is_tty = 0 THEN ReadRefused(APE_LINE_ERROR_NOT_TTY)
          ELSE IF state.s_initialized = 0 THEN ReadRefused(APE_LINE_ERROR_NOT_INITIALIZED)
          ELSE IF out = NULLP THEN ReadRefused(APE_LINE_ERROR_NO_OUTLINE)
          ELSE IF prompt = NULLP THEN ReadRefused(APE_LINE_ERROR_NO_PROMPT)
          ELSE /\ out_line' = OutLineAtEntry(out_line)
               /\ term' = IF state.s_depth = 0 THEN ape_line_apply_raw(state, term) ELSE term
               /\ IF wr < 0
                  THEN /\ state' = [state EXCEPT !.s_prompt = prompt]
                       /\ last_error' = ape_line_set_error(APE_LINE_ERROR_WRITE)
                       /\ read_ret' = -1
                       /\ op' = "read_write_failed"
                       /\ call' = NoCall
                       /\ UNCHANGED <<editor, status>>
                  ELSE /\ state' = [state EXCEPT !.s_prompt = prompt,
                                                 !.s_depth = state.s_depth + 1]
                       /\ editor' = ape_line_editor_reset(editor)
                       /\ status' = "reading"
                       /\ call' = NewCall(state.s_esc_seq)
                       /\ op' = "read_start"
                       /\ read_ret' = -2
                       /\ UNCHANGED last_error
               /\ UNCHANGED <<fault, edAux, histVars, sigVars, seq, seq_i>>

ReadStart ==
    \E prompt \in Prompts, out \in OutSlots, wr \in {-1, 0} : ReadCall(prompt, out, wr)

\* Complete copying the line only up to the cursor
Complete_ToCursor(st, h, e) ==
    LET x == ape_line_def_exec_cmd(h, e.buf_items)
    IN  /\ out_line' = LineCopy(SubSeq(e.buf_items, 1, e.cursor))
        /\ state' = st
        /\ IF x.exits
           THEN \* exit(0) runs ape_line_at_exit
                /\ status' = "exited"
                /\ term' = ape_line_restore(st, term)
                /\ \E o \in ape_line_history_shutdown(x.h) : history' = o.h
                /\ editor' = e
                /\ UNCHANGED read_ret
           ELSE /\ status' = "idle"
                /\ history' = x.h
                /\ read_ret' = e.buf_len
                /\ editor' = ape_line_editor_reset(e)
                /\ UNCHANGED term

\* The line is complete: copy it out, run exec_cmd, reset, return its length
Complete(st, h, e) ==
    LET x == ape_line_def_exec_cmd(h, e.buf_items)
    IN  /\ out_line' = LineCopy(e.buf_items)
        /\ state' = st
        /\ IF x.exits
           THEN \* exit(0) runs ape_line_at_exit
                /\ status' = "exited"
                /\ term' = ape_line_restore(st, term)
                /\ \E o \in ape_line_history_shutdown(x.h) : history' = o.h
                /\ editor' = e
                /\ UNCHANGED read_ret
           ELSE /\ status' = "idle"
                /\ history' = x.h
                /\ read_ret' = e.buf_len
                /\ editor' = ape_line_editor_reset(e)
                /\ UNCHANGED term

\* The bookkeeping after the byte b
CallAfter(c, b) ==
    IF c.kind = "pure" /\ Printable(b)
    THEN [c EXCEPT !.bytes = Append(c.bytes, b)]
    ELSE IF c.kind = "pure" /\ (b = NL \/ b = CR)
    THEN [c EXCEPT !.kind = "line"]
    ELSE NoCall

AllBytes == NormalBytes \cup EscFirstBytes \cup EscSecondBytes

\* One iteration of the loop in ape_line_read on the byte b
FeedByte(b) ==
    /\ status = "reading"
    /\ ~fault
    /\ Offered(b)
    /\ \E o \in ape_line_def_char_handler(state, seq, seq_i, editor, history, b) :
          /\ seq' = o.seq
          /\ seq_i' = o.seq_i
          /\ op' = o.ev
          /\ fault' = o.fault
          /\ IF o.fault \/ o.handled = APE_LINE_FALSE
             THEN /\ state' = o.state
                  /\ editor' = o.e
                  /\ history' = o.h
                  /\ call' = CallAfter(call, b)
                  /\ UNCHANGED <<term, status, out_line, read_ret>>
             ELSE LET d == ape_line_def_is_done(o.state, o.e)
                  IN  IF d.done = APE_LINE_TRUE
                      THEN /\ \E t \in TrimNewline(o.e) : Complete(d.state, o.h, t.e)
                           /\ call' = [CallAfter(call, b) EXCEPT !.done_cursor = o.e.cursor]
                      ELSE /\ state' = d.state
                           /\ editor' = o.e
                           /\ history' = o.h
                           /\ call' = CallAfter(call, b)
                           /\ UNCHANGED <<term, status, out_line, read_ret>>
    /\ UNCHANGED <<edAux, histAux, sigVars, last_error>>

Feed == \E b \in AllBytes : FeedByte(b)

\* read() returned 0
ReadEOF ==
    /\ status = "reading"
    /\ ~fault
    /\ editor' = ape_line_editor_reset(editor)
    /\ state' = [state EXCEPT !.s_depth = state.s_depth - 1]
    /\ read_ret' = 0
    /\ status' = "idle"
    /\ op' = "eof"
    /\ call' = NoCall
    /\ UNCHANGED <<fault, edAux, histVars, sigVars, seq, seq_i, term, last_error, out_line>>

\* read() returned -1: errno is EINTR (err the interrupt kind), or something
\* else (err the read kind)
ReadFailedOf(err) ==
    /\ status = "reading"
    /\ ~fault
    /\ last_error' = ape_line_set_error(err)
    /\ op' = IF err = APE_LINE_ERROR_INTERRUPT THEN "eintr" ELSE "read_error"
    /\ editor' = ape_line_editor_reset(editor)
    /\ state' = [state EXCEPT !.s_depth = state.s_depth - 1]
    /\ read_ret' = -1
    /\ status' = "idle"
    /\ call' = NoCall
    /\ UNCHANGED <<fault, edAux, histVars, sigVars, seq, seq_i, term, out_line>>

ReadFailed ==
    \E err \in {APE_LINE_ERROR_INTERRUPT, APE_LINE_ERROR_READ} : ReadFailedOf(err)

Next ==
    \/ AppHistoryInit \/ ApeLineInit \/ ApeLineShutdown
    \/ ReadStart \/ Feed \/ ReadEOF \/ ReadFailed

Spec == Init /\ [][Next]_vars

-----------------------------------------------------------------------------
\* Claims about ape_line_read with the default handlers, under Spec

\* s with its i-th character taken out
RemoveAt(s, i) ==
    [j \in 1..(Len(s) - 1) |-> IF j < i THEN s[j] ELSE s[j + 1]]

\* The step returns the line: the copy, its length, and one history entry for
\* a non-empty line, none for the empty one
Returned(line) ==
    /\ status' = "idle"
    /\ out_line' = LineCopy(line)
    /\ read_ret' = Len(line)
    /\ IF line # <<>>
       THEN /\ history'.count = history.count + 1
            /\ history'.items =
                  Append(history.items,
                         [data |-> line, data_len |-> Len(line), userdata |-> NULLP])
       ELSE /\ history'.count = history.count
            /\ history'.items = history.items

NewlineFed == FeedByte(CR) \/ FeedByte(NL)

\* C5 as stated: with the default handlers and an initialized history, a run of
\* printable characters followed by a newline returns exactly those characters
\* as the line and their count as the length, and adds exactly one history
\* entry when the line is non-empty, none when it is empty.
C5_PrintableLineReturned ==
    [][(call.kind = "pure" /\ history.inited # 0 /\ NewlineFed)
          => Returned(call.bytes)]_vars

\* C5 where it holds: the same, for a read entered with the escape recognizer in
\* Normal state and a line other than "exit".
C5_PrintableLineReturned_Amended ==
    [][(/\ call.kind = "pure"
        /\ call.esc_entry = 0
        /\ call.bytes # ExitCmd
        /\ history.inited # 0
        /\ NewlineFed)
          => Returned(call.bytes)]_vars

C5_Witness ==
    /\ op = "newline"
    /\ status = "idle"
    /\ call.kind = "line"
    /\ call.esc_entry = 0
    /\ call.bytes = <<101, 120, 105>>
    /\ out_line = LineCopy(call.bytes)
    /\ read_ret = 3
    /\ history.count = 2
    /\ history.items[2].data = call.bytes

\* C6: in Normal state a backspace byte (DEL or BS) takes out the character left
\* of the cursor, moves the characters right of it one place left and lowers
\* cursor and length by one; with the cursor at 0 the buffer is unchanged; and
\* when the read ends on that iteration the line returned is that buffer.
C6_BackspaceRemovesLeft ==
    [][(status = "reading" /\ state.s_esc_seq = 0 /\ (FeedByte(DEL) \/ FeedByte(BS)))
          => LET left == editor.cursor > 0
                 items == IF left THEN RemoveAt(editor.buf_items, editor.cursor)
                                  ELSE editor.buf_items
                 cursor == IF left THEN editor.cursor - 1 ELSE editor.cursor
                 len == IF left THEN editor.buf_len - 1 ELSE editor.buf_len
             IN  /\ op' = "backspace"
                 /\ ~fault'
                 /\ IF status' = "reading"
                    THEN /\ editor'.buf_items = items
                         /\ editor'.cursor = cursor
                         /\ editor'.buf_len = len
                    ELSE /\ out_line' = LineCopy(items)
                         /\ call'.done_cursor = cursor]_vars

\* A backspace with the cursor between the two characters of "ex"
C6_Witness ==
    /\ op = "backspace"
    /\ status = "reading"
    /\ editor.buf_items = <<120>>
    /\ editor.cursor = 0
    /\ editor.buf_len = 1

\* C7: a CR or LF byte received in Normal state ends the read on that iteration,
\* and the line is the whole buffer whatever the cursor position, without the
\* newline byte.
C7_NewlineCompletes ==
    [][(status = "reading" /\ state.s_esc_seq = 0 /\ NewlineFed)
          => /\ op' = "newline"
             /\ status' \in {"idle", "exited"}
             /\ out_line' = LineCopy(editor.buf_items)
             /\ \A k \in 1..Len(out_line'.str) : out_line'.str[k] \notin {CR, NL}
             /\ status' = "idle" => read_ret' = editor.buf_len]_vars

\* A line of three characters completed with the cursor after the first one
C7_Witness ==
    /\ op = "newline"
    /\ status = "idle"
    /\ out_line = LineCopy(<<101, 120, 105>>)
    /\ read_ret = 3
    /\ call.done_cursor = 1

ArrowUp(first, second) == first = LBRACKET /\ second = KEY_UP
Arrow(first, second) ==
    first = LBRACKET /\ second \in {KEY_UP, KEY_DOWN, KEY_RIGHT, KEY_LEFT}

\* C8: ESC enters the escape state without touching buffer or history; the first
\* byte after it is only stored; the second byte ends the sequence, so Normal
\* state is back after exactly two bytes; ESC [ A dispatches exactly one
\* history-previous; two bytes that form no arrow sequence change neither the
\* buffer nor the history.
C8_EscapeSequences ==
    [][status = "reading" =>
          /\ (state.s_esc_seq = 0 /\ FeedByte(ESC)) =>
                /\ op' = "esc"
                /\ state'.s_esc_seq # 0
                /\ seq_i' = 0
                /\ editor' = editor /\ history' = history
                /\ status' = "reading"
          /\ (state.s_esc_seq # 0 /\ seq_i = 0) =>
                \A b \in EscFirstBytes :
                   FeedByte(b) =>
                      /\ op' = "esc_byte"
                      /\ state'.s_esc_seq # 0
                      /\ seq_i' = 1
                      /\ seq'[1] = b
                      /\ editor' = editor /\ history' = history
                      /\ status' = "reading"
          /\ (state.s_esc_seq # 0 /\ seq_i = 1) =>
                \A b \in EscSecondBytes :
                   FeedByte(b) =>
                      /\ state'.s_esc_seq = 0
                      /\ op' = "hist_prev" <=> ArrowUp(seq[1], b)
                      /\ ArrowUp(seq[1], b) =>
                            history' = ape_line_history_previous(history).h
                      /\ ~Arrow(seq[1], b) =>
                            /\ op' = "esc_drop"
                            /\ editor' = editor /\ history' = history
                            /\ status' = "reading"]_vars

\* ESC [ A recalled the entry of the line read before into the buffer
C8_Witness ==
    /\ op = "hist_prev"
    /\ status = "reading"
    /\ state.s_esc_seq = 0
    /\ history.count = 1
    /\ history.current_item = 0
    /\ editor.buf_items = history.items[1].data
    /\ editor.buf_len > 0

\* C17 as stated: after ape_line_init on input or output that is no terminal,
\* ape_line_read returns -1 with the error APE_LINE_ERROR_NOT_TTY recorded,
\* reads no byte and changes neither the terminal attributes nor s_depth.
C17_NotATerminal ==
    [][status = "idle" =>
          \A prompt \in Prompts, out \in OutSlots, wr \in {-1, 0} :
             (/\ state.s_initialized # 0
              /\ state.s_is_tty = 0
              /\ ReadCall(prompt, out, wr))
                => /\ read_ret' = -1
                   /\ last_error' = APE_LINE_ERROR_NOT_TTY
                   /\ status' = "idle"
                   /\ term' = term
                   /\ state'.s_depth = state.s_depth]_vars

\* C18 as stated: ape_line_read while s_initialized is clear, a call before any
\* ape_line_init included, fails with the error APE_LINE_ERROR_NOT_INITIALIZED
\* recorded.
C18_NotInitialized ==
    [][status = "idle" =>
          \A prompt \in Prompts, out \in OutSlots, wr \in {-1, 0} :
             (state.s_initialized = 0 /\ ReadCall(prompt, out, wr))
                => /\ read_ret' = -1
                   /\ last_error' = APE_LINE_ERROR_NOT_INITIALIZED]_vars

\* One of the four checks at the top of ape_line_read fails
PreconditionFails(prompt, out) ==
    \/ state.s_is_tty = 0
    \/ state.s_initialized = 0
    \/ out = NULLP
    \/ prompt = NULLP

\* C19: an ape_line_read that fails a precondition check returns -1 and leaves
\* s_depth and the stored prompt, the terminal mode, the line buffer, the
\* history and the caller's line as they were, and reads no byte.
C19_RefusedReadHasNoEffect ==
    [][status = "idle" =>
          \A prompt \in Prompts, out \in OutSlots, wr \in {-1, 0} :
             (PreconditionFails(prompt, out) /\ ReadCall(prompt, out, wr))
                => /\ read_ret' = -1
                   /\ state' = state
                   /\ term' = term
                   /\ editor' = editor
                   /\ history' = history
                   /\ out_line' = out_line
                   /\ seq' = seq /\ seq_i' = seq_i
                   /\ status' = "idle"
                   /\ ~fault']_vars

\* A call with a NULL argument made after a read that returned a line: the
\* caller's line and s_depth are still what that read left
C19_Witness ==
    /\ op = "read_refused"
    /\ read_ret = -1
    /\ state.s_is_tty # 0
    /\ state.s_initialized # 0
    /\ state.s_depth = 1
    /\ term = "raw"
    /\ out_line = LineCopy(<<101, 120>>)
    /\ history.count = 1

\* C20 as stated: after a call failed, the last error is the kind that call
\* recorded.
C20_LastErrorIsRecordedKind ==
    /\ op = "read_refused" =>
          last_error \in {APE_LINE_ERROR_NOT_TTY, APE_LINE_ERROR_NOT_INITIALIZED,
                          APE_LINE_ERROR_NO_OUTLINE, APE_LINE_ERROR_NO_PROMPT}
    /\ op = "read_write_failed" => last_error = APE_LINE_ERROR_WRITE
    /\ op = "eintr" => last_error = APE_LINE_ERROR_INTERRUPT
    /\ op = "read_error" => last_error = APE_LINE_ERROR_READ

\* C21 as stated: whenever ape_line_read returns failure, be it on a
\* precondition, on the write of the prompt, on an interrupt or on a read
\* error, the caller's line is what it was before.
C21_FailureLeavesOutLine ==
    [][/\ status = "idle" =>
             \A prompt \in Prompts, out \in OutSlots, wr \in {-1, 0} :
                (ReadCall(prompt, out, wr) /\ read_ret' = -1)
                   => out_line' = out_line
       /\ status = "reading" =>
             (ReadFailed => (read_ret' = -1 /\ out_line' = out_line))]_vars

\* C21: an ape_line_read that fails a precondition check leaves the caller's
\* line as it was; one that fails later, on the write of the prompt, on an
\* interrupt or on a read error, returns -1 with the caller's line set to NULL.
C21_FailureLeavesOutLine_Amended ==
    [][/\ status = "idle" =>
             \A prompt \in Prompts, out \in OutSlots, wr \in {-1, 0} :
                (ReadCall(prompt, out, wr) /\ read_ret' = -1)
                   => out_line' = IF PreconditionFails(prompt, out)
                                  THEN out_line ELSE LineNull
       /\ status = "reading" =>
             (ReadFailed => (read_ret' = -1 /\ out_line' = LineNull))]_vars

\* The prompt could not be written, in a session whose history holds the one
\* line an earlier read returned: the caller's line is NULL
C21_Witness ==
    /\ op = "read_write_failed"
    /\ read_ret = -1
    /\ out_line = LineNull
    /\ history.count = 1
    /\ state.s_depth = 1

\* C22 as stated: whenever ape_line_read returns n >= 0, on a completed line
\* and on end of input alike, the caller's line is a fresh string of length n.
C22_ReturnedLineIsString ==
    (status = "idle" /\ op \in {"newline", "eof"} /\ read_ret >= 0)
       => (out_line.ptr = "str" /\ Len(out_line.str) = read_ret)

\* C23 as stated: a read that passed the checks raises s_depth by one on entry
\* and lowers it by one on every exit: completed line, end of input, read
\* error, interrupt.
C23_DepthBalanced ==
    [][/\ status = "idle" =>
             \A prompt \in Prompts, out \in OutSlots :
                (ReadCall(prompt, out, 0) /\ ~PreconditionFails(prompt, out))
                   => state'.s_depth = state.s_depth + 1
       /\ (status = "reading" /\ status' = "idle")
             => state'.s_depth = state.s_depth - 1]_vars

\* C24 as stated: in an interactive session the terminal has the raw
\* attributes exactly when s_depth > 0, and the saved ones when it is 0.
C24_RawIffDepthPositive ==
    (state.s_initialized # 0 /\ state.s_is_tty # 0 /\ status # "exited")
       => (term = "raw" <=> state.s_depth > 0)

\* C25 as stated: the raw attributes are applied by the entry that raises
\* s_depth from 0 to 1 and by no other, and the saved attributes are restored
\* when, and only when, the outermost call exits.
C25_RawAppliedOnceRestoredAtExit ==
    [][/\ status = "idle" =>
             \A prompt \in Prompts, out \in OutSlots :
                (ReadCall(prompt, out, 0) /\ ~PreconditionFails(prompt, out))
                   => term' = IF state.s_depth = 0 THEN "raw" ELSE term
       /\ (status = "reading" /\ status' = "idle")
             => term' = IF state'.s_depth = 0 THEN "saved" ELSE term]_vars

\* C26: ape_line_init called while the controller is initialized returns 0 and
\* changes nothing, whatever options it is given: the stored options, the
\* terminal attributes, the interactivity flag and s_depth are as before.
C26_SecondInitIsNoop ==
    [][(status = "idle" /\ state.s_initialized # 0) =>
          \A opts \in OptsArgs, tty \in {0, 1}, tcget \in {-1, 0} :
             ApeLineInitOf(opts, tty, tcget)
                => /\ op' = "init"
                   /\ ~fault'
                   /\ state' = state
                   /\ term' = term
                   /\ editor' = editor
                   /\ history' = history
                   /\ out_line' = out_line
                   /\ last_error' = last_error]_vars

\* ape_line_init called again after a read returned a line: s_depth and the
\* raw attributes that read left are still there
C26_Witness ==
    /\ op = "init"
    /\ state.s_initialized # 0
    /\ state.s_is_tty # 0
    /\ state.s_depth = 1
    /\ term = "raw"
    /\ history.count = 1

\* C27: ape_line_shutdown on an initialized controller restores the saved
\* terminal attributes, shuts the history down and clears s_initialized and
\* s_depth; called on a controller that is not initialized it changes nothing.
C27_ShutdownThenNoop ==
    [][status = "idle" =>
          (ApeLineShutdown =>
              /\ ~fault'
              /\ IF state.s_initialized # 0
                 THEN /\ term' = IF state.s_is_tty # 0 THEN "saved" ELSE term
                      /\ history'.inited = 0
                      /\ history'.items = <<>>
                      /\ state'.s_initialized = 0
                      /\ state'.s_depth = 0
                 ELSE /\ state' = state
                      /\ term' = term
                      /\ history' = history
                      /\ editor' = editor
                      /\ out_line' = out_line
                      /\ last_error' = last_error)]_vars

\* ape_line_shutdown after a read returned a line and left the terminal raw
\* with s_depth = 1
C27_Witness ==
    /\ op = "shutdown"
    /\ state.s_initialized = 0
    /\ state.s_is_tty # 0
    /\ state.s_depth = 0
    /\ term = "saved"
    /\ history.inited = 0
    /\ history.count = 1

\* C29 as stated: when read() is interrupted, fails otherwise, or returns no
\* byte, ape_line_read empties the line buffer, lowers s_depth by one and
\* returns -1 with the interrupt kind recorded, -1 with the read kind recorded,
\* or 0, whatever had been typed.
C29_ReadEndsReported ==
    [][status = "reading" =>
          /\ \A err \in {APE_LINE_ERROR_INTERRUPT, APE_LINE_ERROR_READ} :
                ReadFailedOf(err)
                   => /\ editor'.cursor = 0
                      /\ editor'.buf_len = 0
                      /\ state'.s_depth = state.s_depth - 1
                      /\ read_ret' = -1
                      /\ last_error' = err
          /\ ReadEOF
                => /\ editor'.cursor = 0
                   /\ editor'.buf_len = 0
                   /\ state'.s_depth = state.s_depth - 1
                   /\ read_ret' = 0]_vars

\* C30 as stated: with the default handler and an initialized history, every
\* key other than an arrow sequence, CR and LF included, leaves the browse
\* cursor at -1 once handled.
C30_KeyEndsBrowsing ==
    [][(status = "reading" /\ state.s_esc_seq = 0 /\ history.inited # 0) =>
          \A b \in NormalBytes \ {ESC} :
             (FeedByte(b) /\ ~fault') => history'.current_item = -1]_vars

\* C30: with the default handler and an initialized history, a printable
\* character, a tab, a backspace or another control byte after which the read
\* goes on leaves the browse cursor at -1. CR and LF do not: the line they
\* complete leaves the cursor at count when it is appended, and where it was
\* when it is empty. (The first part is written from its consequent: a step
\* after which the read goes on with the cursor elsewhere is none of these keys.)
C30_KeyEndsBrowsing_Amended ==
    [][(status = "reading" /\ state.s_esc_seq = 0 /\ history.inited # 0) =>
          /\ (~fault' /\ status' = "reading" /\ history'.current_item # -1)
                => \A b \in NormalBytes \ {ESC, CR, NL} : ~FeedByte(b)
          /\ status' = "idle"
                => \A b \in {CR, NL} :
                      FeedByte(b)
                         => history'.current_item =
                               IF read_ret' > 0 THEN history'.count
                               ELSE history.current_item]_vars

\* A control byte that is ignored, typed after a line was appended: the
\* cursor, which the append had left at count, is -1
C30_Witness ==
    /\ op = "ignored"
    /\ status = "reading"
    /\ history.inited # 0
    /\ history.count = 1
    /\ history.current_item = -1
    /\ editor.buf_len = 0

-----------------------------------------------------------------------------
(* ape_line_shutdown called while ape_line_read is blocked in read(), from a
   signal handler of the application or from another thread: SpecRace *)

\* What is typed in these sessions: the line "e"
RaceBytes == {101, NL}

FeedRace == \E b \in RaceBytes : FeedByte(b)

\* ape_line_shutdown() run to its end while a read is in flight
ShutdownInFlight ==
    /\ status = "reading"
    /\ ~fault
    /\ \E r \in ape_line_shutdown(state, term, history) :
          /\ state' = r.state
          /\ term' = r.term
          /\ history' = r.h
    /\ op' = "shutdown_in_flight"
    /\ UNCHANGED <<edVars, histAux, sigVars, seq, seq_i, last_error, status, out_line,
                   read_ret, call>>

NextRace ==
    \/ AppHistoryInit \/ ApeLineInit \/ ApeLineShutdown \/ ShutdownInFlight
    \/ ReadStart \/ FeedRace \/ ReadEOF \/ ReadFailed

SpecRace == Init /\ [][NextRace]_vars

\* C28: when ape_line_shutdown runs while a read is in flight, the saved
\* attributes are in effect once it returns, and no later step of that read,
\* its exit included, puts the terminal back into raw mode.
C28_ShutdownDuringRead ==
    [][status = "reading" =>
          /\ (ShutdownInFlight /\ state.s_initialized # 0)
                => /\ term' = "saved"
                   /\ state'.s_initialized = 0
                   /\ state'.s_depth = 0
          /\ state.s_initialized = 0 => term' = "saved"]_vars

\* The in-flight read has ended on end of input after the shutdown: the
\* terminal has the saved attributes, and s_depth, lowered from 0, has wrapped
C28_Witness ==
    /\ op = "eof"
    /\ status = "idle"
    /\ state.s_is_tty # 0
    /\ state.s_initialized = 0
    /\ state.s_depth = -1
    /\ term = "saved"

-----------------------------------------------------------------------------
\* Further claims about the editor, under SpecEditor

\* C31 as stated: after ape_line_editor_command, last_char is the character
\* the command touched: the inserted one after an insert, the removed one
\* after a backspace that removed one, '\n' after a newline command.
C31_LastCharIsTouched ==
    [][\A c \in EditorCmdChars :
          (CommandOf(c) /\ ~fault') =>
             LET e == EnsureInited(editor)
             IN  IF c = BS
                 THEN (e.cursor > 0 /\ CursorInContent(e))
                         => ape_line_editor_last_char(editor') = e.buf_items[e.cursor]
                 ELSE ape_line_editor_last_char(editor') = c]_vars

-----------------------------------------------------------------------------
\* Further claims about the history store, under SpecHistory

\* C32 as stated: ape_line_history_previous and ape_line_history_next return
\* no entry or an entry whose index i satisfies 0 <= i < count, after any
\* sequence of history calls, next() right after an append included.
C32_ReturnedEntryInRange ==
    op \in {"history_previous", "history_next"} =>
        \/ ret = NULLP
        \/ 0 <= ret /\ ret < history.count

-----------------------------------------------------------------------------
\* Further claims about ape_line_read with the default handlers, under Spec

\* C34 as stated: every ape_line_read call begins with the escape recognizer
\* in Normal state, whatever sequence the read before it left pending.
C34_ReadBeginsNormal ==
    (status = "reading" /\ op = "read_start") => state.s_esc_seq = 0

\* C40 as stated: completing the line "exit" appends it to the history and
\* then ends the process with the saved terminal attributes restored; no other
\* line ends the process.
C40_ExitLineEndsProcess ==
    [][(status = "reading" /\ out_line'.ptr = "str") =>
          IF out_line'.str = ExitCmd
          THEN /\ status' = "exited"
               /\ history'.count = history.count + 1
               /\ term' = "saved"
          ELSE status' = "idle"]_vars

\* C40: completing the line "exit" ends the process with the saved terminal
\* attributes restored, after appending the line when the history is
\* initialized; when it is not, nothing is appended. No other line ends the
\* process.
C40_ExitLineEndsProcess_Amended ==
    [][(status = "reading" /\ out_line'.ptr = "str") =>
          IF out_line'.str = ExitCmd
          THEN /\ status' = "exited"
               /\ history'.count =
                     IF history.inited # 0 THEN history.count + 1 ELSE history.count
               /\ history'.inited = 0
               /\ term' = "saved"
          ELSE status' = "idle"]_vars

\* The process has ended on the line "exit", the second line of the session
C40_Witness ==
    /\ status = "exited"
    /\ op = "newline"
    /\ out_line = LineCopy(ExitCmd)
    /\ term = "saved"
    /\ history.count = 2
    /\ history.inited = 0

-----------------------------------------------------------------------------
\* A further claim about shutdown during a read, under SpecRace

\* C38 as stated: in no sequence of ape_line_init, ape_line_read with every
\* exit path, and ape_line_shutdown is s_depth decremented while it is 0.
C38_DepthNeverWraps ==
    [][(status = "reading" /\ (ReadEOF \/ ReadFailed)) => state.s_depth > 0]_vars

-----------------------------------------------------------------------------
(* Arrow keys over a history the application filled through
   ape_line_history_append: SpecRecall *)

\* The lines the application stores: a short one, and one of 32 characters
RecallLines == {<<97>>, Rep(98, 32)}

\* The keys of these sessions: 'e', ESC, '[' and the four arrow letters
RecallBytes == {101, ESC, LBRACKET, KEY_UP, KEY_DOWN, KEY_RIGHT, KEY_LEFT}

\* The application's ape_line_history_append(cmd, NULL) between two reads
AppHistoryAppend ==
    /\ status = "idle"
    /\ ~fault
    /\ history.count < MaxHist
    /\ \E cmd \in RecallLines :
          history' = ape_line_history_append(history, cmd, NULLP).h
    /\ op' = "history_append"
    /\ call' = NoCall
    /\ UNCHANGED <<edVars, histAux, sigVars, state, seq, seq_i, term, last_error, status,
                   out_line, read_ret>>

FeedRecall == \E b \in RecallBytes : FeedByte(b)

NextRecall ==
    \/ AppHistoryInit \/ ApeLineInit \/ AppHistoryAppend
    \/ ReadStart \/ FeedRecall \/ ReadEOF

SpecRecall == Init /\ [][NextRecall]_vars

\* The editor after a recall of the entry the pointer p addresses, or as it
\* was when p is NULL
Recalled(p) ==
    IF p = NULLP
    THEN /\ ~fault'
         /\ editor'.buf_items = editor.buf_items
         /\ editor'.buf_len = editor.buf_len
         /\ editor'.cursor = editor.cursor
    ELSE PointsAtEntry(history, p) =>
            /\ ~fault'
            /\ editor'.buf_items = history.items[p + 1].data
            /\ editor'.buf_len = history.items[p + 1].data_len
            /\ editor'.cursor = history.items[p + 1].data_len

\* The editor after the cursor went to the position pos
CursorOnly(pos) ==
    /\ ~fault'
    /\ editor'.buf_items = editor.buf_items
    /\ editor'.buf_len = editor.buf_len
    /\ editor'.cursor = pos

\* C33 as stated: an up or down arrow for which the history returns an entry
\* replaces the line buffer with the entry's text and puts the cursor at its
\* end; when the history returns no entry, buffer and cursor are unchanged;
\* left and right arrows move only the cursor, by one, clamped to [0, length].
C33_ArrowKeys ==
    [][(status = "reading" /\ state.s_esc_seq # 0 /\ seq_i = 1 /\ seq[1] = LBRACKET) =>
          /\ FeedByte(KEY_UP) => Recalled(ape_line_history_previous(history).ret)
          /\ FeedByte(KEY_DOWN) => Recalled(ape_line_history_next(history).ret)
          /\ FeedByte(KEY_RIGHT) => CursorOnly(Min(editor.cursor + 1, editor.buf_len))
          /\ FeedByte(KEY_LEFT) =>
                CursorOnly(IF editor.cursor > 0 THEN editor.cursor - 1 ELSE 0)]_vars

-----------------------------------------------------------------------------
(* Termination of ape_line_read: SpecLive.  The input keeps delivering bytes
   (read() does not block for ever) and, again and again while the recognizer
   is in Normal state, a CR or LF. *)

\* The keys of these sessions: an ignored control byte, ESC, '[', the left
\* arrow letter, CR and LF
LiveBytes == {SOH, ESC, LBRACKET, KEY_LEFT, CR, NL}

FeedLive == \E b \in LiveBytes : FeedByte(b)

\* A CR or LF byte delivered while the recognizer is in Normal state
NormalNewline == state.s_esc_seq = 0 /\ (FeedByte(CR) \/ FeedByte(NL))

NextLive ==
    \/ AppHistoryInit \/ ApeLineInit \/ ApeLineShutdown
    \/ ReadStart \/ FeedLive \/ ReadEOF \/ ReadFailed

SpecLive ==
    Init /\ [][NextLive]_vars /\ WF_vars(FeedLive) /\ SF_vars(NormalNewline)

\* C39: a read that passed its checks returns on the iteration whose read()
\* gives end of input, an error, or a CR/LF byte in Normal state, and so every
\* such read eventually returns when the input eventually delivers one of
\* them; a byte that is not consumed or belongs to an escape sequence leaves
\* the loop waiting for the next byte.
C39_ReadReturns ==
    /\ [][status = "reading" =>
             /\ (ReadEOF \/ ReadFailed \/ NormalNewline) => status' # "reading"
             /\ (FeedByte(SOH) \/ (state.s_esc_seq # 0 /\ FeedLive))
                   => (status' = "reading" /\ ~fault')]_vars
    /\ (status = "reading") ~> (status # "reading")

\* The second read of a session has returned the empty line on a newline
C39_Witness ==
    /\ op = "newline"
    /\ status = "idle"
    /\ read_ret = 0
    /\ out_line = LineCopy(<<>>)
    /\ state.s_depth = 2

-----------------------------------------------------------------------------
(* Job control: SIGTSTP and SIGCONT delivered to the process between two
   reads or while ape_line_read is blocked in read(): SpecSignals *)

\* What is typed in these sessions: the line "e"
SigBytes == {101, NL}

FeedSig == \E b \in SigBytes : FeedByte(b)

\* SIGTSTP: ape_line_signal_handler restores the terminal, puts the default
\* disposition back and raises the signal again, which stops the process;
\* under the default disposition the process just stops
SigTstp ==
    /\ status \in {"idle", "reading"}
    /\ ~fault
    /\ term' = IF handlers = "installed" THEN ape_line_restore(state, term) ELSE term
    /\ handlers' = IF handlers = "installed" THEN "tstp_reset" ELSE handlers
    /\ status' = IF status = "reading" THEN "stopped_reading" ELSE "stopped_idle"
    /\ op' = "sigtstp"
    /\ UNCHANGED <<edVars, histVars, state, seq, seq_i, last_error, out_line,
                   read_ret, call, pc>>

\* SIGCONT: the process goes on where it stood, after ape_line_signal_handler
\* if it is installed
SigCont ==
    /\ status \in {"idle", "reading", "stopped_idle", "stopped_reading"}
    /\ ~fault
    /\ term' = IF handlers # "none" /\ state.s_depth # 0
               THEN ape_line_apply_raw(state, term) ELSE term
    /\ status' = IF status \in {"reading", "stopped_reading"} THEN "reading" ELSE "idle"
    /\ op' = "sigcont"
    /\ UNCHANGED <<edVars, histVars, state, seq, seq_i, last_error, out_line,
                   read_ret, call, handlers, pc>>

NextSignals ==
    \/ ApeLineInit \/ ApeLineShutdown \/ ReadStart \/ FeedSig \/ ReadEOF
    \/ SigTstp \/ SigCont

SpecSignals == Init /\ [][NextSignals]_vars

\* C35 as stated: with the handlers installed on a terminal, every SIGTSTP,
\* the first and every later one, leaves the saved attributes in effect when
\* the process stops.
C35_SuspendRestores ==
    [][(status \in {"idle", "reading"} /\ handlers # "none" /\ state.s_is_tty # 0
        /\ SigTstp)
          => term' = "saved"]_vars

\* C36 as stated: with the handlers installed, SIGCONT applies the raw
\* attributes when an ape_line_read call is in progress, and leaves the
\* terminal as it is when it arrives between two reads.
C36_ContinueReappliesRaw ==
    [][(handlers # "none" /\ SigCont)
          => term' = IF status \in {"reading", "stopped_reading"}
                     THEN "raw" ELSE term]_vars

-----------------------------------------------------------------------------
(* SIGINT delivered while ape_line_read runs, between two statements of the
   insert in ape_line_editor_command as well: SpecSigint.  Here buf_cap = 0
   stands for buf_items = NULL, which is what ape_line_editor_reset and
   nothing else leaves. *)

\* The handler calls ape_line_editor_command(&s_editor, c) for a printable c:
\* ape_line_history_set_dirty() is done and the insert is about to test the
\* capacity
InsBegin ==
    /\ status = "reading"
    /\ ~fault
    /\ pc.at = "none"
    /\ state.s_esc_seq = 0
    /\ Len(editor.buf_items) = editor.buf_len
    /\ \E c \in {101, 120} :
          /\ Offered(c)
          /\ pc' = [at |-> "grow", c |-> c]
    /\ editor' = EnsureInited(editor)
    /\ history' = ape_line_history_set_dirty(history).h
    /\ op' = "insert_begin"
    /\ UNCHANGED <<fault, edAux, histAux, state, seq, seq_i, term, last_error,
                   status, out_line, read_ret, call, handlers>>

\* The next statement of the insert
InsStep ==
    /\ status = "reading"
    /\ ~fault
    /\ pc.at # "none"
    /\ IF pc.at = "grow"
       THEN \* if (buf_len + 1 >= buf_cap) { buf_cap = ...; buf_items = realloc(...) }
            /\ editor' = IF editor.buf_len + 1 >= editor.buf_cap
                         THEN [editor EXCEPT !.buf_cap = IF editor.buf_cap # 0
                                                         THEN editor.buf_cap * 2
                                                         ELSE INIT_CAP]
                         ELSE editor
            /\ pc' = [pc EXCEPT !.at = "shift"]
            /\ UNCHANGED fault
       ELSE IF pc.at = "shift"
       THEN \* if (cursor < buf_len) memmove(buf_items + cursor + 1, ...)
            /\ IF editor.cursor < editor.buf_len
               THEN IF editor.buf_cap = 0 \/ Len(editor.buf_items) < editor.buf_len
                    THEN fault' = TRUE /\ UNCHANGED editor
                    ELSE /\ editor' = [editor EXCEPT !.buf_items =
                                          ShiftRightPut(editor.buf_items, editor.cursor,
                                                        editor.buf_items[editor.cursor + 1])]
                         /\ UNCHANGED fault
               ELSE UNCHANGED <<editor, fault>>
            /\ pc' = [pc EXCEPT !.at = "store"]
       ELSE IF pc.at = "store"
       THEN \* buf_items[cursor++] = c
            /\ IF editor.buf_cap = 0 \/ editor.cursor > Len(editor.buf_items)
               THEN fault' = TRUE /\ UNCHANGED editor
               ELSE /\ editor' = [editor EXCEPT
                                     !.buf_items =
                                         IF editor.cursor < Len(editor.buf_items)
                                         THEN [editor.buf_items EXCEPT
                                                  ![editor.cursor + 1] = pc.c]
                                         ELSE Append(editor.buf_items, pc.c),
                                     !.cursor = editor.cursor + 1]
                    /\ UNCHANGED fault
            /\ pc' = [pc EXCEPT !.at = "len"]
       ELSE IF pc.at = "len"
       THEN \* buf_len++
            /\ editor' = [editor EXCEPT !.buf_len = editor.buf_len + 1]
            /\ pc' = [pc EXCEPT !.at = "last"]
            /\ UNCHANGED fault
       ELSE \* last_char = c; the handler returns and is_done finds no newline
            /\ editor' = [editor EXCEPT !.last_char = pc.c]
            /\ pc' = NoInsert
            /\ UNCHANGED fault
    /\ op' = IF pc.at = "last" THEN "insert" ELSE "insert_step"
    /\ UNCHANGED <<edAux, histVars, state, seq, seq_i, term, last_error, status,
                   out_line, read_ret, call, handlers>>

\* SIGINT: ape_line_signal_handler resets the editor, which frees buf_items
SigInt ==
    /\ status = "reading"
    /\ ~fault
    /\ handlers # "none"
    /\ editor' = ape_line_editor_reset(editor)
    /\ op' = "sigint"
    /\ UNCHANGED <<fault, edAux, histVars, state, seq, seq_i, term, last_error,
                   status, out_line, read_ret, call, handlers, pc>>

\* read() gives a newline, or no byte: only between two inserts
FeedInt ==
    /\ pc.at = "none"
    /\ Len(editor.buf_items) = editor.buf_len
    /\ FeedByte(NL)

EofInt == pc.at = "none" /\ ReadEOF

NextSigint ==
    \/ ApeLineInit \/ ReadStart \/ InsBegin \/ InsStep \/ SigInt
    \/ FeedInt \/ EofInt

SpecSigint == Init /\ [][NextSigint]_vars

\* C37 as stated: whenever SIGINT is handled during ape_line_read, between
\* two statements of ape_line_editor_command included, the loop goes on
\* without touching memory the handler released and finds
\* 0 <= cursor <= buf_len <= buf_cap.
C37_InterruptIsSafe ==
    status = "reading" =>
        /\ ~fault
        /\ pc.at = "none" =>
              /\ 0 <= editor.cursor
              /\ editor.cursor <= editor.buf_len
              /\ editor.buf_len <= editor.buf_cap

=============================================================================
